---- MODULE Spec2Model ----
(***************************************************************************)
(* Model of the hop-aware scheduler proof of concept: the grid topology,   *)
(* the feasibility mask, the mirror-descent scheduler, the per-node class  *)
(* queues and the frame loop of run().                                     *)
(*                                                                         *)
(* Real numbers (numpy float64) are modelled in fixed point: the integer x *)
(* stands for x / Scale.  Python vectors indexed 0..F are functions over   *)
(* 0..F; the mean-rate vector lam (Python index f-1) is a sequence whose   *)
(* element f is lam[f-1].                                                  *)
(***************************************************************************)
EXTENDS Integers, Sequences, FiniteSets

\* ------------------------------------------------------------------ bounds
MaxF == 2
MaxHop == 2
MaxS == 2
MaxFrames == 2
MaxPackets == 4
MaxQueues == 8
MaxSteps == 2

\* Grid shapes (rows, cols) examined.
Grids == {<<1, 2>>, <<1, 4>>, <<2, 2>>}

\* ------------------------------------------------------- fixed-point reals
Scale == 1000

Max(a, b) == IF a >= b THEN a ELSE b

Mul(a, b) == (a * b) \div Scale

Div(a, b) == (a * Scale) \div b

RECURSIVE SumTo(_, _, _)
\* sum of f[i] for i in lo..hi
SumTo(f, lo, hi) == IF lo > hi THEN 0 ELSE f[lo] + SumTo(f, lo + 1, hi)

RECURSIVE MaxTo(_, _, _)
\* maximum of f[i] for i in lo..hi (lo <= hi)
MaxTo(f, lo, hi) == IF lo = hi THEN f[lo] ELSE Max(f[lo], MaxTo(f, lo + 1, hi))

RECURSIVE SqrtIter(_, _)
SqrtIter(n, r) ==
    LET r2 == (r + n \div r) \div 2
    IN IF r2 >= r THEN r ELSE SqrtIter(n, r2)

\* np.sqrt / the root inside np.linalg.norm, on a fixed-point argument
Sqrt(x) == IF x <= 0 THEN 0 ELSE SqrtIter(x * Scale, x * Scale)

\* ln(m) for m in [1, 2]: 2*atanh((m-1)/(m+1))
LnSeries(m) ==
    LET y == Div(m - Scale, m + Scale)
        y2 == Mul(y, y)
        y3 == Mul(y, y2)
        y5 == Mul(y3, y2)
        y7 == Mul(y5, y2)
    IN 2 * (y + y3 \div 3 + y5 \div 5 + y7 \div 7)

Ln2 == LnSeries(2 * Scale)

RECURSIVE Ln(_)
\* np.log on a positive fixed-point argument
Ln(x) ==
    IF x >= 2 * Scale THEN Ln2 + Ln(x \div 2)
    ELSE IF x < Scale THEN Ln(2 * x) - Ln2
    ELSE LnSeries(x)

RECURSIVE Exp(_)
\* np.exp on a fixed-point argument z <= 0 (softmax shifts by the maximum)
Exp(z) ==
    IF z < 0 - Ln2 THEN Exp(z + Ln2) \div 2
    ELSE LET z2 == Mul(z, z)
             z3 == Mul(z2, z)
             z4 == Mul(z3, z)
             z5 == Mul(z4, z)
         IN Max(0, Scale + z + z2 \div 2 + z3 \div 6 + z4 \div 24 + z5 \div 120)

\* np.log(1e-20): the value of np.log(p + 1e-20) when p is 0
LogEps == -46052

\* np.log(p + 1e-20) for a weight p >= 0: the 1e-20 only shows when p is 0
LogPlusEps(p) == IF p = 0 THEN LogEps ELSE Ln(p)

\* ---------------------------------------------------------------- topology
\* build_grid(m, n): nodes 0..m*n-1 by row-major enumeration
GridNodes(rows, cols) == 0 .. (rows * cols - 1)

Abs(x) == IF x < 0 THEN 0 - x ELSE x

\* 4-neighbour adjacency of nx.grid_2d_graph after relabelling
Adjacent(rows, cols, u, v) ==
    LET ru == u \div cols
        cu == u % cols
        rv == v \div cols
        cv == v % cols
    IN Abs(ru - rv) + Abs(cu - cv) = 1

RECURSIVE PathsOfLen(_, _, _, _, _)
\* the paths of exactly k edges from u to v
PathsOfLen(rows, cols, u, v, k) ==
    IF k = 0 THEN (IF u = v THEN {<<u>>} ELSE {})
    ELSE UNION { { <<u>> \o p : p \in PathsOfLen(rows, cols, w, v, k - 1) } :
                 w \in { x \in GridNodes(rows, cols) : Adjacent(rows, cols, u, x) } }

\* hop count of a shortest path (len(nx.shortest_path(G,u,v)) - 1)
HopDist(rows, cols, u, v) ==
    CHOOSE k \in 0 .. (rows * cols - 1) :
        /\ PathsOfLen(rows, cols, u, v, k) # {}
        /\ \A j \in 0 .. (k - 1) : PathsOfLen(rows, cols, u, v, j) = {}

\* nx.shortest_path(G, u, v) returns one of these (which one is the library's choice)
ShortestPaths(rows, cols, u, v) == PathsOfLen(rows, cols, u, v, HopDist(rows, cols, u, v))

\* ------------------------------------------------------- feasibility mask
\* od_pairs=[(u,v) for u in range(N) for v in range(N) if u!=v], as a sequence
OdPairs(N) ==
    [i \in 1 .. (N * (N - 1)) |->
        LET k == i - 1
            u == k \div (N - 1)
            r == k % (N - 1)
        IN <<u, IF r >= u THEN r + 1 ELSE r>>]

\* the mask with the test hop >= hopmax in place of hop > hopmax
BuildH_off_by_one(rows, cols, F, hopmax) ==
    LET od == OdPairs(rows * cols)
    IN [i \in 1 .. Len(od) |->
          IF HopDist(rows, cols, od[i][1], od[i][2]) >= hopmax
          THEN [c \in 0 .. F |-> IF c \in 1 .. F THEN 1 ELSE 0]
          ELSE [c \in 0 .. F |-> 0]]

\* H: one row per OD pair; a pair farther apart than hopmax has H[idx,1:]=1
BuildH(rows, cols, F, hopmax) ==
    LET od == OdPairs(rows * cols)
    IN [i \in 1 .. Len(od) |->
          IF HopDist(rows, cols, od[i][1], od[i][2]) > hopmax
          THEN [c \in 0 .. F |-> IF c \in 1 .. F THEN 1 ELSE 0]
          ELSE [c \in 0 .. F |-> 0]]

\* --------------------------------------------------------------- scheduler
\* gamma0 = 1.0
Gamma == Scale

\* self.G_U = mu
G_U(mu) == mu * Scale

\* self.G_phi = 2*np.max(np.linalg.norm(H, axis=1))
G_phi(Hm, F) ==
    LET norm == [i \in 1 .. Len(Hm) |->
                    Sqrt(Scale * SumTo([c \in 0 .. F |-> Hm[i][c] * Hm[i][c]], 0, F))]
    IN 2 * MaxTo(norm, 1, Len(Hm))

\* eta = (G_U + gamma*G_phi)**-1 * sqrt(log(F+1)/t)
Eta(Hm, F, mu, tt) ==
    Mul(Div(Scale, G_U(mu) + Mul(Gamma, G_phi(Hm, F))),
        Sqrt(Div(Ln((F + 1) * Scale), tt * Scale)))

\* grad_U[f] = mu if pq[f]*mu < lam_vec[f-1] else 0, for f in 1..F; grad_U[0] = 0
GradU(F, mu, w, lam_vec) ==
    [c \in 0 .. F |-> IF c >= 1 /\ w[c] * mu < lam_vec[c] THEN mu * Scale ELSE 0]

\* H @ x
HDot(Hm, F, x) == [i \in 1 .. Len(Hm) |-> SumTo([c \in 0 .. F |-> Hm[i][c] * x[c]], 0, F)]

\* H.T @ y
HTDot(Hm, F, y) == [c \in 0 .. F |-> SumTo([i \in 1 .. Len(Hm) |-> Hm[i][c] * y[i]], 1, Len(Hm))]

\* softmax that forgets the division by e.sum()
softmax_unnormalised(z, F) ==
    LET m == MaxTo(z, 0, F)
    IN [c \in 0 .. F |-> Exp(z[c] - m)]

\* softmax(z): shift by the maximum, exponentiate, divide by the sum
softmax(z, F) ==
    LET m == MaxTo(z, 0, F)
        e == [c \in 0 .. F |-> Exp(z[c] - m)]
        s == SumTo(e, 0, F)
    IN [c \in 0 .. F |-> Div(e[c], s)]

\* the mirror step: softmax(log(pq+1e-20) - eta*g)
MirrorStep(Hm, F, mu, w, dual, eta, lam_vec) ==
    LET grad_U == GradU(F, mu, w, lam_vec)
        grad_phi == [c \in 0 .. F |-> 2 * HTDot(Hm, F, HDot(Hm, F, w))[c]]
        HTl == HTDot(Hm, F, dual)
        g == [c \in 0 .. F |-> (0 - grad_U[c]) + HTl[c] + Mul(Gamma, grad_phi[c])]
    IN softmax([c \in 0 .. F |-> LogPlusEps(w[c]) - Mul(eta, g[c])], F)

\* a dual update that descends and is not projected on the nonnegative orthant
DualDescentUnprojected(Hm, F, dual, eta, w) ==
    LET Hw == HDot(Hm, F, w)
    IN [i \in 1 .. Len(Hm) |-> dual[i] - Mul(eta, Hw[i])]

\* the dual ascent: np.maximum(0.0, lamdual + eta*(H @ pq))
DualAscent(Hm, F, dual, eta, w) ==
    LET Hw == HDot(Hm, F, w)
    IN [i \in 1 .. Len(Hm) |-> Max(0, dual[i] + Mul(eta, Hw[i]))]

\* HopAwareScheduler.step: the scheduler state after one call with lam_vec
\* (defined when lam_vec has at least F entries; see StepRaises)
step(Hm, F, mu, w, dual, tt, lam_vec) ==
    LET t1 == tt + 1
        eta == Eta(Hm, F, mu, t1)
        w1 == MirrorStep(Hm, F, mu, w, dual, eta, lam_vec)
    IN [pq |-> w1, lamdual |-> DualAscent(Hm, F, dual, eta, w1), t |-> t1]

\* lam_vec[f-1] raises IndexError for some f in 1..F
StepRaises(F, lam_vec) == Len(lam_vec) < F

\* ------------------------------------------------------------ node queues
\* the value of "pkt is None"
NoPkt == [id |-> 0]

\* Packet(dst, cls, birth): hop starts at 0; id stands for the object's identity
Packet(id, dst, cls, birth) == [id |-> id, dst |-> dst, cls |-> cls, hop |-> 0, birth |-> birth]

\* Node(F): F+1 empty queues
Node(F) == [c \in 0 .. F |-> <<>>]

\* a pop that ignores the draw and always serves the lowest nonempty class
pop_lowest_first(q, F, cls) ==
    LET ne == { f \in 0 .. F : q[f] # <<>> }
    IN IF ne = {}
       THEN [cls |-> F + 1, pkt |-> NoPkt, queues |-> q]
       ELSE LET f == CHOOSE x \in ne : \A y \in ne : x <= y
            IN [cls |-> f, pkt |-> Head(q[f]), queues |-> [q EXCEPT ![f] = Tail(@)]]

RECURSIVE Scan(_, _, _)
\* for f in range(F+1): if self.queues[f]: return f  (F+1 when none is found)
Scan(q, f, F) == IF f > F THEN F + 1 ELSE IF q[f] # <<>> THEN f ELSE Scan(q, f + 1, F)

\* a pop that returns the head of the queue and leaves it in the queue
pop_peek(q, F, cls) ==
    IF q[cls] # <<>>
    THEN [cls |-> cls, pkt |-> Head(q[cls]), queues |-> q]
    ELSE LET f == Scan(q, 0, F)
         IN IF f <= F
            THEN [cls |-> f, pkt |-> Head(q[f]), queues |-> q]
            ELSE [cls |-> F + 1, pkt |-> NoPkt, queues |-> q]

\* Node.pop_by_policy with cls the class np.random.choice drew:
\* the class and packet returned and the queues afterwards
pop_by_policy(q, F, cls) ==
    IF q[cls] # <<>>
    THEN [cls |-> cls, pkt |-> Head(q[cls]), queues |-> [q EXCEPT ![cls] = Tail(@)]]
    ELSE LET f == Scan(q, 0, F)
         IN IF f <= F
            THEN [cls |-> f, pkt |-> Head(q[f]), queues |-> [q EXCEPT ![f] = Tail(@)]]
            ELSE [cls |-> F + 1, pkt |-> NoPkt, queues |-> q]

\* ------------------------------------------------------------------ state
VARIABLES
    args,        \* rows, cols, F, hopmax, S, frames, lam
    H,           \* the feasibility incidence handed to the scheduler
    scheduler,   \* HopAwareScheduler: pq, lamdual, t
    nodes,       \* nodes[n][c]: the class-c queue of node n
    results,     \* the per-frame records
    global_time,
    frame,
    arrivals,    \* the counts poisson_arrivals returned for this frame
    pq,          \* the weights scheduler.step returned for this frame
    delivered,
    dropped,
    latency,
    slot,
    n,           \* the node the arrival or service loop is at
    pc,
    generated,   \* packets constructed and enqueued so far
    gen_calls,   \* calls of poisson_arrivals in this frame
    step_calls,  \* calls of scheduler.step so far
    served,      \* what the last service visit did
    gone         \* ids of the packets counted as delivered or dropped so far

vars == <<args, H, scheduler, nodes, results, global_time, frame, arrivals, pq,
          delivered, dropped, latency, slot, n, pc, generated, gen_calls,
          step_calls, served, gone>>

N == args.rows * args.cols

NoService == [kind |-> "init"]

\* mean rates per class
LamValues == {0, Scale}

SeqsOfLen(S, k) == [1 .. k -> S]

\* the mean-rate vectors of length L examined: the same rate for every class
LamVectors(L) == { [f \in 1 .. L |-> v] : v \in LamValues }

\* HopAwareScheduler.__init__
SchedulerInit(F, Hm) ==
    [pq |-> [c \in 0 .. F |-> Div(Scale, (F + 1) * Scale)],
     lamdual |-> [i \in 1 .. Len(Hm) |-> 0],
     t |-> 0]

\* run() up to the frame loop, for one parsed argument record
Setup(a) ==
    /\ args = a
    /\ H = BuildH(a.rows, a.cols, a.F, a.hopmax)
    /\ scheduler = SchedulerInit(a.F, BuildH(a.rows, a.cols, a.F, a.hopmax))
    /\ nodes = [x \in GridNodes(a.rows, a.cols) |-> Node(a.F)]
    /\ results = <<>>
    /\ global_time = 0
    /\ frame = 0
    /\ arrivals = <<>>
    /\ pq = [c \in 0 .. a.F |-> 0]
    /\ delivered = 0
    /\ dropped = 0
    /\ latency = <<>>
    /\ slot = 0
    /\ n = 0
    /\ generated = 0
    /\ gen_calls = 0
    /\ step_calls = 0
    /\ served = NoService
    /\ gone = {}

Init ==
    /\ \E g \in Grids, F \in 1 .. MaxF, hopmax \in 0 .. MaxHop, S \in 1 .. MaxS,
          frames \in 0 .. MaxFrames :
         \E L \in (F - 1) .. (F + 1) :
           /\ g[1] * g[2] * (F + 1) <= MaxQueues
           /\ \E lam \in LamVectors(L) :
             Setup([rows |-> g[1], cols |-> g[2], F |-> F, hopmax |-> hopmax,
                    S |-> S, frames |-> frames, lam |-> lam])
    /\ pc = "arrival"

\* ----------------------------------------------------------------- traffic
\* poisson_arrivals(lam_vec): the count vectors np.random.poisson can return,
\* up to cap per class; a class of mean 0 always draws 0
poisson_arrivals(lam_vec, cap) ==
    { c \in [1 .. Len(lam_vec) -> 0 .. cap] : \A f \in 1 .. Len(lam_vec) : lam_vec[f] = 0 => c[f] = 0 }

\* ------------------------------------------------------------- frame loop
\* for frame in range(args.frames): arrivals=poisson_arrivals(np.array(args.lam))
Arrival ==
    /\ pc = "arrival"
    /\ frame < args.frames
    /\ \E c \in poisson_arrivals(args.lam, MaxPackets) :
         /\ generated + N * SumTo(c, 1, Len(c)) <= MaxPackets
         /\ arrivals' = c
    /\ gen_calls' = 1
    /\ n' = 0
    /\ pc' = "enqueue"
    /\ UNCHANGED <<gone, args, H, scheduler, nodes, results, global_time, frame, pq,
                   delivered, dropped, latency, slot, generated, step_calls, served>>

\* the (class, unit) pairs of one node's arrivals that are enqueued
Units(c, F) == { fk \in (1 .. F) \X (1 .. MaxPackets) : fk[1] <= Len(c) /\ fk[2] <= c[fk[1]] }

\* packets constructed before unit k of class f, at one node
Before(c, f, k) == SumTo(c, 1, f - 1) + (k - 1)

\* the destination draw without the shift past the origin
Dst_no_shift(r, node) == r

\* dst=np.random.randint(0,N-1); if dst>=n: dst+=1
Dst(r, node) == IF r >= node THEN r + 1 ELSE r

\* arrivals enumerated from 0: the count of class f + 1 goes to queue f
EnqueueArrivals_from_zero(q, c, F, node, r, first_id, birth) ==
    [f \in 0 .. F |->
        IF f + 1 <= Len(c) /\ f + 1 <= F
        THEN q[f] \o [k \in 1 .. c[f + 1] |->
                        Packet(first_id + Before(c, f + 1, k), Dst(r[<<f + 1, k>>], node), f, birth)]
        ELSE q[f]]

\* the queues of one node after its arrivals of classes 1..F, r[<<f,k>>] being
\* the randint draw of unit k of class f
EnqueueArrivals(q, c, F, node, r, first_id, birth) ==
    [f \in 0 .. F |->
        IF f >= 1 /\ f <= Len(c)
        THEN q[f] \o [k \in 1 .. c[f] |->
                        Packet(first_id + Before(c, f, k), Dst(r[<<f, k>>], node), f, birth)]
        ELSE q[f]]

\* a count for a class beyond F: nodes[n].enqueue(pkt, f) raises IndexError
EnqueueRaises(c, F) == \E f \in 1 .. Len(c) : f > F /\ c[f] > 0

\* one node of the arrival phase (lines 56-61)
Enqueue ==
    /\ pc = "enqueue"
    /\ \E r \in [Units(arrivals, args.F) -> 0 .. (N - 2)] :
         nodes' = [nodes EXCEPT ![n] =
                     EnqueueArrivals(@, arrivals, args.F, n, r, generated + 1, global_time)]
    /\ generated' = generated + Cardinality(Units(arrivals, args.F))
    /\ IF EnqueueRaises(arrivals, args.F)
       THEN pc' = "error" /\ n' = n
       ELSE IF n = N - 1
            THEN pc' = "schedule" /\ n' = 0
            ELSE pc' = "enqueue" /\ n' = n + 1
    /\ UNCHANGED <<gone, args, H, scheduler, results, global_time, frame, arrivals, pq,
                   delivered, dropped, latency, slot, gen_calls, step_calls, served>>

\* a schedule phase that steps the scheduler twice in one frame
Schedule_twice ==
    /\ pc = "schedule"
    /\ step_calls' = step_calls + 2
    /\ IF StepRaises(args.F, args.lam)
       THEN /\ scheduler' = [scheduler EXCEPT !.t = @ + 1]
            /\ pc' = "error"
            /\ UNCHANGED <<gone, pq, delivered, dropped, latency, slot, n>>
       ELSE /\ scheduler' =
                 LET s1 == step(H, args.F, args.S, scheduler.pq, scheduler.lamdual,
                                scheduler.t, args.lam)
                 IN step(H, args.F, args.S, s1.pq, s1.lamdual, s1.t, args.lam)
            /\ pq' = scheduler'.pq
            /\ delivered' = 0
            /\ dropped' = 0
            /\ latency' = <<>>
            /\ slot' = 0
            /\ n' = 0
            /\ pc' = "service"
    /\ UNCHANGED <<gone, args, H, nodes, results, global_time, frame, arrivals, generated,
                   gen_calls, served>>

\* pq=scheduler.step(np.array(args.lam)); delivered=0; dropped=0; latency=[]
Schedule ==
    /\ pc = "schedule"
    /\ step_calls' = step_calls + 1
    /\ IF StepRaises(args.F, args.lam)
       THEN /\ scheduler' = [scheduler EXCEPT !.t = @ + 1]
            /\ pc' = "error"
            /\ UNCHANGED <<gone, pq, delivered, dropped, latency, slot, n>>
       ELSE /\ scheduler' = step(H, args.F, args.S, scheduler.pq, scheduler.lamdual,
                                 scheduler.t, args.lam)
            /\ pq' = scheduler'.pq
            /\ delivered' = 0
            /\ dropped' = 0
            /\ latency' = <<>>
            /\ slot' = 0
            /\ n' = 0
            /\ pc' = "service"
    /\ UNCHANGED <<gone, args, H, nodes, results, global_time, frame, arrivals, generated,
                   gen_calls, served>>

\* routing that takes the element after the current node on the fresh path
Outcomes_next_element(r, node) ==
    IF r.pkt = NoPkt THEN {[kind |-> "none"]}
    ELSE IF r.pkt.hop + 1 > args.hopmax THEN {[kind |-> "drop_hop"]}
    ELSE { IF 1 >= Len(path)
           THEN [kind |-> "drop_path", path |-> path]
           ELSE IF path[2] = r.pkt.dst
                THEN [kind |-> "delivered", path |-> path, next_hop |-> path[2]]
                ELSE [kind |-> "forwarded", path |-> path, next_hop |-> path[2]]
           : path \in ShortestPaths(args.rows, args.cols, node, r.pkt.dst) }

\* the service step with the budget test made on the hop count before the hop
Outcomes_late_drop(r, node) ==
    IF r.pkt = NoPkt THEN {[kind |-> "none"]}
    ELSE IF r.pkt.hop > args.hopmax THEN {[kind |-> "drop_hop"]}
    ELSE { IF r.pkt.hop + 1 >= Len(path)
           THEN [kind |-> "drop_path", path |-> path]
           ELSE IF path[r.pkt.hop + 2] = r.pkt.dst
                THEN [kind |-> "delivered", path |-> path, next_hop |-> path[r.pkt.hop + 2]]
                ELSE [kind |-> "forwarded", path |-> path, next_hop |-> path[r.pkt.hop + 2]]
           : path \in ShortestPaths(args.rows, args.cols, node, r.pkt.dst) }

\* what lines 69-84 do with the result r of pop_by_policy at node `node`:
\* one outcome per path nx.shortest_path may return
Outcomes(r, node) ==
    IF r.pkt = NoPkt THEN {[kind |-> "none"]}
    ELSE IF r.pkt.hop + 1 > args.hopmax THEN {[kind |-> "drop_hop"]}
    ELSE { IF r.pkt.hop + 1 >= Len(path)
           THEN [kind |-> "drop_path", path |-> path]
           ELSE IF path[r.pkt.hop + 2] = r.pkt.dst
                THEN [kind |-> "delivered", path |-> path, next_hop |-> path[r.pkt.hop + 2]]
                ELSE [kind |-> "forwarded", path |-> path, next_hop |-> path[r.pkt.hop + 2]]
           : path \in ShortestPaths(args.rows, args.cols, node, r.pkt.dst) }

\* the latency without the + 1
Latency_no_plus_one(gt, sl, birth) == gt + sl - birth

\* latency.append(global_time+slot - pkt.birth +1)
Latency(gt, sl, birth) == gt + sl - birth + 1

\* a service visit that counts a drop and puts the packet back in its queue
Service_requeue_on_drop ==
    /\ pc = "service"
    /\ \E cls \in { c \in 0 .. args.F : pq[c] > 0 } :
         LET r == pop_by_policy(nodes[n], args.F, cls)
         IN \E o \in Outcomes(r, n) :
              /\ served' = [kind |-> o.kind, node |-> n, drawn |-> cls, cls |-> r.cls,
                            pkt |-> r.pkt, before |-> nodes[n], slot |-> slot,
                            next_hop |-> IF o.kind \in {"delivered", "forwarded"}
                                         THEN o.next_hop ELSE n]
              /\ nodes' = IF o.kind = "forwarded"
                          THEN [nodes EXCEPT ![n] = r.queues,
                                             ![o.next_hop] =
                                                [@ EXCEPT ![r.cls] =
                                                    Append(@, [r.pkt EXCEPT !.hop = @ + 1])]]
                          ELSE IF o.kind \in {"drop_hop", "drop_path"}
                               THEN [nodes EXCEPT ![n] =
                                        [r.queues EXCEPT ![r.cls] = Append(@, r.pkt)]]
                               ELSE [nodes EXCEPT ![n] = r.queues]
              /\ dropped' = IF o.kind \in {"drop_hop", "drop_path"} THEN dropped + 1 ELSE dropped
              /\ delivered' = IF o.kind = "delivered" THEN delivered + 1 ELSE delivered
              /\ latency' = IF o.kind = "delivered"
                            THEN Append(latency, Latency(global_time, slot, r.pkt.birth))
                            ELSE latency
              /\ gone' = IF o.kind \in {"drop_hop", "drop_path", "delivered"}
                         THEN gone \cup {r.pkt.id} ELSE gone
    /\ n' = IF n = N - 1 THEN 0 ELSE n + 1
    /\ slot' = IF n = N - 1 THEN slot + 1 ELSE slot
    /\ pc' = IF n = N - 1 /\ slot = args.S - 1 THEN "record" ELSE "service"
    /\ UNCHANGED <<args, H, scheduler, results, global_time, frame, arrivals, pq,
                   generated, gen_calls, step_calls>>

\* one node of one service slot (lines 67-84)
Service ==
    /\ pc = "service"
    /\ \E cls \in { c \in 0 .. args.F : pq[c] > 0 } :
         LET r == pop_by_policy(nodes[n], args.F, cls)
         IN \E o \in Outcomes(r, n) :
              /\ served' = [kind |-> o.kind, node |-> n, drawn |-> cls, cls |-> r.cls,
                            pkt |-> r.pkt, before |-> nodes[n], slot |-> slot,
                            next_hop |-> IF o.kind \in {"delivered", "forwarded"}
                                         THEN o.next_hop ELSE n]
              /\ nodes' = IF o.kind = "forwarded"
                          THEN [nodes EXCEPT ![n] = r.queues,
                                             ![o.next_hop] =
                                                [@ EXCEPT ![r.cls] =
                                                    Append(@, [r.pkt EXCEPT !.hop = @ + 1])]]
                          ELSE [nodes EXCEPT ![n] = r.queues]
              /\ dropped' = IF o.kind \in {"drop_hop", "drop_path"} THEN dropped + 1 ELSE dropped
              /\ delivered' = IF o.kind = "delivered" THEN delivered + 1 ELSE delivered
              /\ latency' = IF o.kind = "delivered"
                            THEN Append(latency, Latency(global_time, slot, r.pkt.birth))
                            ELSE latency
              /\ gone' = IF o.kind \in {"drop_hop", "drop_path", "delivered"}
                         THEN gone \cup {r.pkt.id} ELSE gone
    /\ n' = IF n = N - 1 THEN 0 ELSE n + 1
    /\ slot' = IF n = N - 1 THEN slot + 1 ELSE slot
    /\ pc' = IF n = N - 1 /\ slot = args.S - 1 THEN "record" ELSE "service"
    /\ UNCHANGED <<args, H, scheduler, results, global_time, frame, arrivals, pq,
                   generated, gen_calls, step_calls>>

\* a delivery ratio computed as the complement of the drop ratio
Pdr_complement(del, drp) == Scale - Div(drp * Scale, Max(del + drp, 1) * Scale)

\* 'pdr':delivered/max(delivered+dropped,1)
Pdr(del, drp) == Div(del * Scale, Max(del + drp, 1) * Scale)

\* 'latency':np.mean(latency) if latency else 0
MeanLatency(lat) == IF lat = <<>> THEN 0 ELSE Div(SumTo(lat, 1, Len(lat)) * Scale, Len(lat) * Scale)

\* the record step without the advance of the global time counter
Record_no_time ==
    /\ pc = "record"
    /\ results' = Append(results, [frame |-> frame, delivered |-> delivered,
                                   dropped |-> dropped, pdr |-> Pdr(delivered, dropped),
                                   latency |-> MeanLatency(latency)])
    /\ frame' = frame + 1
    /\ served' = NoService
    /\ pc' = "arrival"
    /\ UNCHANGED <<gone, args, H, scheduler, nodes, arrivals, pq, delivered, dropped,
                   latency, slot, n, generated, gen_calls, step_calls, global_time>>

\* results.append({...}); global_time+=args.S
Record ==
    /\ pc = "record"
    /\ results' = Append(results, [frame |-> frame, delivered |-> delivered,
                                   dropped |-> dropped, pdr |-> Pdr(delivered, dropped),
                                   latency |-> MeanLatency(latency)])
    /\ global_time' = global_time + args.S
    /\ frame' = frame + 1
    /\ served' = NoService
    /\ pc' = "arrival"
    /\ UNCHANGED <<gone, args, H, scheduler, nodes, arrivals, pq, delivered, dropped,
                   latency, slot, n, generated, gen_calls, step_calls>>

\* the frame loop is exhausted: the results are written out
Finish ==
    /\ pc = "arrival"
    /\ frame >= args.frames
    /\ pc' = "done"
    /\ UNCHANGED <<gone, args, H, scheduler, nodes, results, global_time, frame, arrivals,
                   pq, delivered, dropped, latency, slot, n, generated, gen_calls,
                   step_calls, served>>

Next == Arrival \/ Enqueue \/ Schedule \/ Service \/ Record \/ Finish

Spec == Init /\ [][Next]_vars

\* ------------------------------------------- the scheduler driven directly
\* offered loads tried per class: none, below mu*pq, above mu
LoadValues == {0, Scale \div 4, (MaxS + 1) * Scale}

\* a scheduler built by run() for any grid, F, hopmax and S, before any step
SchedInit ==
    /\ \E g \in Grids, F \in 1 .. MaxF, hopmax \in 0 .. MaxHop, S \in 1 .. MaxS :
         Setup([rows |-> g[1], cols |-> g[2], F |-> F, hopmax |-> hopmax,
                S |-> S, frames |-> 0, lam |-> <<>>])
    /\ pc = "sched"

\* scheduler.step(lam_vec) for an arbitrary offered-load vector of length F
SchedStep ==
    /\ pc = "sched"
    /\ scheduler.t < MaxSteps
    /\ \E lam_vec \in SeqsOfLen(LoadValues, args.F) :
         scheduler' = step(H, args.F, args.S, scheduler.pq, scheduler.lamdual,
                           scheduler.t, lam_vec)
    /\ pq' = scheduler'.pq
    /\ step_calls' = step_calls + 1
    /\ UNCHANGED <<gone, args, H, nodes, results, global_time, frame, arrivals, delivered,
                   dropped, latency, slot, n, pc, generated, gen_calls, served>>

SchedNext == SchedStep

SchedSpec == SchedInit /\ [][SchedNext]_vars

\* ------------------------------------------------------------------ claims

GridHops(cols, u, v) == Abs((u \div cols) - (v \div cols)) + Abs((u % cols) - (v % cols))

\* the row of the ordered pair (u, v) in the incidence structure
PairIndex(u, v) == CHOOSE i \in 1 .. (N * (N - 1)) : OdPairs(N)[i] = <<u, v>>

\* C3: for every ordered pair (u,v) of distinct nodes and every class c in 0..F
\* the incidence entry is 1 iff c >= 1 and the hop count from u to v exceeds
\* hopmax (else 0); the class-0 column is 0; with hopmax at least the diameter
\* the whole structure is 0.
C3_IncidenceMarksFarPairs ==
    /\ Len(H) = N * (N - 1)
    /\ \A u, v \in 0 .. (N - 1) :
         u # v =>
           \A c \in 0 .. args.F :
              /\ H[PairIndex(u, v)][c] \in {0, 1}
              /\ H[PairIndex(u, v)][c] = 1 <=>
                   (c >= 1 /\ GridHops(args.cols, u, v) > args.hopmax)
    /\ \A i \in 1 .. Len(H) : H[i][0] = 0
    /\ args.hopmax >= (args.rows - 1) + (args.cols - 1) =>
         \A i \in 1 .. Len(H) : \A c \in 0 .. args.F : H[i][c] = 0

\* C3 witness: the 1x4 line with hopmax 1 and two classes: the pair (0,3) is
\* marked for class 2, the pair (0,1) is not
C3_Witness ==
    /\ args.rows = 1 /\ args.cols = 4 /\ args.hopmax = 1 /\ args.F = 2
    /\ H[PairIndex(0, 3)][2] = 1
    /\ H[PairIndex(0, 1)][1] = 0

\* every packet held in some queue
Queued == UNION { { nodes[x][c][i] : i \in 1 .. Len(nodes[x][c]) } :
                  x \in 0 .. (N - 1), c \in 0 .. args.F }

\* the last service visit popped a packet
ServedPacket == served.kind \in {"drop_hop", "drop_path", "delivered", "forwarded"}

\* C4: a packet returned by pop_by_policy has hop count at most hopmax + 1 when
\* it is evaluated; the budget test precedes the increment, so no packet is
\* delivered or re-enqueued with a hop count above hopmax (hopmax >= 0).
C4_HopBudget ==
    /\ ServedPacket => served.pkt.hop <= args.hopmax + 1
    /\ served.kind \in {"delivered", "forwarded"} => served.pkt.hop + 1 <= args.hopmax
    /\ served.kind = "drop_hop" <=> (ServedPacket /\ served.pkt.hop + 1 > args.hopmax)
    /\ \A p \in Queued : p.hop >= 0 /\ p.hop <= args.hopmax

\* C4 witness: a packet that used its whole budget of at least one hop is
\* served again and dropped by the budget test
C4_Witness ==
    /\ served.kind = "drop_hop"
    /\ args.hopmax >= 1
    /\ served.pkt.hop = args.hopmax

AllZero(lam) == \A f \in 1 .. Len(lam) : lam[f] = 0

\* C5 as stated: with every mean rate 0, every frame's record has delivered = 0,
\* dropped = 0, pdr = 1 and latency = 0.
C5_ZeroLoadPdrOne ==
    AllZero(args.lam) =>
        \A i \in 1 .. Len(results) :
            /\ results[i].delivered = 0
            /\ results[i].dropped = 0
            /\ results[i].pdr = Scale
            /\ results[i].latency = 0

\* C5 amended: with every mean rate 0 no packet is ever generated and every
\* frame's record has delivered = 0, dropped = 0, pdr = 0 (0 / max(0, 1)) and
\* latency = 0.
C5_ZeroLoadPdrZero ==
    AllZero(args.lam) =>
        /\ generated = 0
        /\ Queued = {}
        /\ \A i \in 1 .. Len(results) :
            /\ results[i].delivered = 0
            /\ results[i].dropped = 0
            /\ results[i].pdr = 0
            /\ results[i].latency = 0

\* C5 witness: a finished two-frame run with F mean rates, all 0
C5_Witness ==
    /\ pc = "done"
    /\ Len(args.lam) = args.F
    /\ AllZero(args.lam)
    /\ Len(results) = 2

\* C6 as stated: the traffic generator is invoked once per node in the arrival
\* phase, N times per frame.
C6_GeneratorOncePerNode ==
    pc = "schedule" => gen_calls = N

\* C7 as stated: a mean-rate vector whose length differs from F is rejected
\* before the first arrival phase: nothing is enqueued, no scheduler step is
\* taken, no record is produced.
C7_LengthMismatchRejected ==
    Len(args.lam) # args.F =>
        /\ generated = 0
        /\ step_calls = 0
        /\ results = <<>>
        /\ pc \in {"arrival", "error"}

C9_State ==
    /\ pc \in {"arrival", "enqueue", "schedule", "service", "record", "done", "error"}
    /\ global_time = frame * args.S
    /\ frame <= args.frames
    /\ pc \in {"enqueue", "schedule", "service", "record"} => frame < args.frames
    /\ Len(results) = frame
    /\ \A i \in 1 .. Len(results) : results[i].frame = i - 1
    /\ pc = "done" => Len(results) = args.frames
    /\ pc = "service" => slot \in 0 .. (args.S - 1) /\ n \in 0 .. (N - 1)
    /\ pc = "record" => slot = args.S
    /\ pc = "error" => Len(args.lam) # args.F

\* the frame loop's steps: Arrival, Schedule, S slots over all nodes, Record
C9_Step ==
    /\ pc = "arrival" => (pc' = "enqueue" /\ frame < args.frames /\ n' = 0)
                         \/ (pc' = "done" /\ frame = args.frames)
    /\ pc = "enqueue" => \/ pc' = "enqueue" /\ n' = n + 1 /\ n < N - 1
                         \/ pc' = "schedule" /\ n = N - 1
                         \/ pc' = "error"
    /\ pc = "schedule" => (pc' = "service" /\ slot' = 0 /\ n' = 0) \/ pc' = "error"
    /\ pc = "service" => \/ pc' = "service" /\ n < N - 1 /\ n' = n + 1 /\ slot' = slot
                         \/ pc' = "service" /\ n = N - 1 /\ n' = 0 /\ slot' = slot + 1
                               /\ slot + 1 < args.S
                         \/ pc' = "record" /\ n = N - 1 /\ slot' = slot + 1
                               /\ slot + 1 = args.S
    /\ pc = "record" => /\ pc' = "arrival"
                        /\ frame' = frame + 1
                        /\ results' = Append(results, results'[Len(results')])
    /\ pc \in {"done", "error"} => pc' = pc
    /\ pc # "record" => results' = results /\ frame' = frame /\ global_time' = global_time

\* C9: the run executes exactly `frames` frames and then ends; every frame is
\* Arrival, Schedule, Service exactly S times (each slot visiting every node
\* once), Record; the results end as `frames` records indexed 0..frames-1; the
\* global time at the start of frame k is k*S.
C9_FrameOrder == []C9_State /\ [][C9_Step]_vars

\* C9 witness: a run of two frames of two slots has ended
C9_Witness ==
    /\ pc = "done"
    /\ args.frames = 2
    /\ args.S = 2
    /\ Len(results) = 2
    /\ global_time = 4

\* the step counter and call count in each phase of frame `frame`
C10_State ==
    /\ scheduler.t = step_calls
    /\ pc \in {"arrival", "enqueue", "schedule", "done"} => step_calls = frame
    /\ pc \in {"service", "record"} => step_calls = frame + 1
    /\ pc = "service" => scheduler.t >= 1 /\ pq = scheduler.pq
    /\ served.kind # "init" => pq[served.drawn] > 0

\* C10: step is invoked exactly once per frame: the step counter grows by one
\* per frame, is k+1 throughout the service phase of frame k and is at least 1
\* whenever a step size has been computed; the weights it returned are the
\* ones every node draws from in every service slot of the frame.
C10_OneStepPerFrame ==
    /\ []C10_State
    /\ [][/\ scheduler'.t >= scheduler.t
          /\ scheduler'.t # scheduler.t => (pc = "schedule" /\ scheduler'.t = scheduler.t + 1)
          /\ pc = "service" => (pq' = pq /\ scheduler' = scheduler)]_vars

\* C10 witness: the last slot of the second frame is being served after two steps
C10_Witness ==
    /\ pc = "service"
    /\ frame = 1
    /\ slot = 1
    /\ scheduler.t = 2
    /\ served.kind = "delivered"

\* the queue positions <<node, class, index>> of ns that hold the packet id
Places(ns, id) ==
    { xci \in (0 .. (N - 1)) \X (0 .. args.F) \X (1 .. MaxPackets) :
        /\ xci[3] <= Len(ns[xci[1]][xci[2]])
        /\ ns[xci[1]][xci[2]][xci[3]].id = id }

\* no packet counted as delivered or dropped is in a queue
C11_State == \A p \in Queued : p.id \notin gone

\* a service visit that pops a packet counts it delivered, counts it dropped or
\* leaves it in one queue position, exactly one of the three; a visit that pops
\* nothing changes no counter and no queue; the run goes on after the visit
C11_Step ==
    pc = "service" =>
        /\ pc' \in {"service", "record"}
        /\ LET id == served'.pkt.id
               d == delivered' - delivered
               x == dropped' - dropped
               q == Cardinality(Places(nodes', id))
           IN IF served'.pkt = NoPkt
              THEN d = 0 /\ x = 0 /\ nodes' = nodes /\ gone' = gone
              ELSE /\ d \in {0, 1} /\ x \in {0, 1}
                   /\ d + x + q = 1
                   /\ (q = 1) <=> (served'.kind = "forwarded")
                   /\ (d = 1) <=> (served'.kind = "delivered")
                   /\ served'.kind = "drop_path" => x = 1
                   /\ (d + x = 1) <=> (id \in gone')
                   /\ id \notin gone

\* C11: every packet returned by pop_by_policy is counted delivered, counted
\* dropped or enqueued at exactly one node, exactly one of the three; an index
\* beyond the path is counted as a drop and the run continues; a packet counted
\* delivered or dropped is never in a queue again.
C11_OneOutcome == []C11_State /\ [][C11_Step]_vars

\* a packet dropped by the index-beyond-path test while other packets wait
C11_Witness ==
    /\ served.kind = "drop_path"
    /\ served.pkt.id \in gone
    /\ Queued # {}
    /\ pc = "service"

\* C12: in every frame's record delivered >= 0, dropped >= 0 and pdr is
\* delivered / max(delivered + dropped, 1) (here to 1/Scale, rounded down), so
\* 0 <= pdr <= 1.
C12_PdrFormula ==
    \A i \in 1 .. Len(results) :
        LET r == results[i]
            m == IF r.delivered + r.dropped >= 1 THEN r.delivered + r.dropped ELSE 1
        IN /\ r.delivered >= 0
           /\ r.dropped >= 0
           /\ r.pdr * m <= r.delivered * Scale
           /\ r.delivered * Scale < (r.pdr + 1) * m
           /\ 0 <= r.pdr /\ r.pdr <= Scale

\* a record of a frame that delivered some packets and dropped others
C12_Witness ==
    \E i \in 1 .. Len(results) :
        /\ results[i].delivered > 0
        /\ results[i].dropped > 0
        /\ 0 < results[i].pdr /\ results[i].pdr < Scale

\* C13: when len(lam) = F, every packet in queue index f of any node has class
\* f with 1 <= f <= F, and queue index 0 of every node is empty.
C13_QueueHoldsItsClass ==
    Len(args.lam) = args.F =>
        \A x \in 0 .. (N - 1) :
            /\ nodes[x][0] = <<>>
            /\ \A f \in 0 .. args.F : \A i \in 1 .. Len(nodes[x][f]) :
                    /\ nodes[x][f][i].cls = f
                    /\ 1 <= f /\ f <= args.F

\* a forwarded packet waits in the queue of its class at the node it was
\* moved to, while a packet that has not moved waits at its origin
C13_Witness ==
    /\ Len(args.lam) = args.F
    /\ \E p \in Queued : p.hop >= 1 /\ p.cls = 1
    /\ \E p \in Queued : p.hop = 0

\* C14: every packet has a destination in 0 .. N-1; a packet that has not moved
\* waits at its origin and its destination differs from that origin; no packet
\* waits in a queue of its own destination node.
C14_NeverQueuedAtDestination ==
    \A x \in 0 .. (N - 1) : \A f \in 0 .. args.F : \A i \in 1 .. Len(nodes[x][f]) :
        /\ nodes[x][f][i].dst \in 0 .. (N - 1)
        /\ nodes[x][f][i].dst # x

\* a packet forwarded towards the last node waits one node short of it, and a
\* packet created at the last node waits there for another destination
C14_Witness ==
    /\ N >= 3
    /\ \E x \in 0 .. (N - 2) : \E p \in { nodes[x][1][i] : i \in 1 .. Len(nodes[x][1]) } :
           p.hop >= 1 /\ p.dst = N - 1
    /\ \E p \in { nodes[N - 1][1][i] : i \in 1 .. Len(nodes[N - 1][1]) } : p.hop = 0

\* the run is on the 2x2 grid with one real class and a hop budget of 1
TwoByTwo == args.rows = 2 /\ args.cols = 2 /\ args.F = 1 /\ args.hopmax = 1

\* C16: on a 2x2 grid with F = 1 and hopmax = 1 the incidence mask marks
\* exactly the diagonal pairs infeasible for class 1; a packet whose
\* destination is adjacent to its origin is delivered the first time it is
\* served; a packet whose destination is diagonal to its origin is forwarded
\* once and dropped by the hop-budget test the next time it is served, so only
\* packets that have not moved are ever delivered.
C16_TwoByTwo ==
    TwoByTwo =>
        /\ \A u \in 0 .. 3, v \in 0 .. 3 :
               u # v => /\ H[PairIndex(u, v)][0] = 0
                        /\ (H[PairIndex(u, v)][1] = 1) <=> (u + v = 3)
        /\ \A x \in 0 .. 3 : \A i \in 1 .. Len(nodes[x][1]) :
               LET p == nodes[x][1][i]
               IN /\ p.hop \in {0, 1}
                  /\ p.hop = 1 => GridHops(2, x, p.dst) = 1
        /\ ServedPacket =>
               LET p == served.pkt
                   d == GridHops(2, served.node, p.dst)
               IN /\ (p.hop = 0 /\ d = 1) => served.kind = "delivered"
                  /\ (p.hop = 0 /\ d = 2) =>
                         /\ served.kind = "forwarded"
                         /\ GridHops(2, served.node, served.next_hop) = 1
                         /\ GridHops(2, served.next_hop, p.dst) = 1
                  /\ p.hop = 1 => served.kind = "drop_hop"
                  /\ served.kind = "delivered" => p.hop = 0 /\ d = 1
                  /\ served.kind \in {"drop_hop", "drop_path"} => p.hop = 1 /\ d = 1

\* a packet for the diagonal node, forwarded once, is dropped by the budget test
C16_Witness ==
    /\ TwoByTwo
    /\ served.kind = "drop_hop"
    /\ served.pkt.hop = 1
    /\ \E i \in 1 .. Len(results) : results[i].delivered > 0

\* C17: a packet already forwarded at least once (hop >= 1), still within its
\* budget (hop + 1 <= hopmax) and served at a node adjacent to its destination,
\* is dropped by the index-beyond-path test and not delivered.
C17_DroppedNextToDestination ==
    ( /\ ServedPacket
      /\ served.pkt.hop >= 1
      /\ served.pkt.hop + 1 <= args.hopmax
      /\ GridHops(args.cols, served.node, served.pkt.dst) = 1 )
    => served.kind = "drop_path"

\* such a drop happens: the packet has moved, is within budget, and is one hop
\* from its destination
C17_Witness ==
    /\ served.kind = "drop_path"
    /\ served.pkt.hop >= 1
    /\ served.pkt.hop + 1 <= args.hopmax
    /\ GridHops(args.cols, served.node, served.pkt.dst) = 1
    /\ served.pkt.id \in gone
    /\ dropped >= 1

\* C18: a packet served with hop count k at node n and not dropped is moved to
\* the node k + 1 steps along a shortest path from n while its hop count grows
\* by 1 only; with k >= 1 that node is not adjacent to n, so the packet is
\* enqueued at a non-neighbour or counted delivered from more than one hop away.
C18_MovedHopPlusOneSteps ==
    served.kind \in {"delivered", "forwarded"} =>
        /\ GridHops(args.cols, served.node, served.next_hop) = served.pkt.hop + 1
        /\ served.kind = "delivered" =>
               /\ served.next_hop = served.pkt.dst
               /\ GridHops(args.cols, served.node, served.pkt.dst) = served.pkt.hop + 1
        /\ served.kind = "forwarded" =>
               \E p \in Queued : p.id = served.pkt.id /\ p.hop = served.pkt.hop + 1

\* a packet that has moved one hop is counted delivered at a node two hops
\* from its destination
C18_Witness ==
    /\ served.kind = "delivered"
    /\ served.pkt.hop >= 1
    /\ GridHops(args.cols, served.node, served.pkt.dst) >= 2
    /\ ~ Adjacent(args.rows, args.cols, served.node, served.next_hop)

\* C19: a packet is born at the global time of its arrival frame b, b * S; the
\* latency recorded when it is delivered in slot s of frame k is the global
\* time at the start of frame k plus s minus its birth plus 1, that is
\* (k - b) * S + s + 1, and is at least 1.
C19_Latency ==
    /\ \A p \in Queued : p.birth % args.S = 0 /\ p.birth \div args.S <= frame
    /\ \A i \in 1 .. Len(latency) : latency[i] >= 1
    /\ served.kind = "delivered" =>
          LET p == served.pkt
              b == p.birth \div args.S
              l == latency[Len(latency)]
          IN /\ latency # <<>>
             /\ global_time = frame * args.S
             /\ p.birth = b * args.S /\ b <= frame
             /\ l = global_time + served.slot - p.birth + 1
             /\ l = (frame - b) * args.S + served.slot + 1
             /\ l >= 1

\* a packet born in an earlier frame is delivered: its latency spans the frames
C19_Witness ==
    /\ served.kind = "delivered"
    /\ served.pkt.birth < global_time
    /\ frame >= 1
    /\ latency[Len(latency)] = frame * args.S + served.slot + 1

\* every queue position <<node, class, index>> that holds a packet
Positions ==
    { xci \in (0 .. (N - 1)) \X (0 .. args.F) \X (1 .. MaxPackets) :
        xci[3] <= Len(nodes[xci[1]][xci[2]]) }

\* delivered plus dropped over the recorded frames and the frame being served
Settled ==
    SumTo([i \in 1 .. Len(results) |-> results[i].delivered + results[i].dropped],
          1, Len(results))
    + (IF pc \in {"service", "record"} THEN delivered + dropped ELSE 0)

\* C20: the number of packets generated so far equals the cumulative delivered
\* count plus the cumulative dropped count plus the number of packets in all
\* queues; no packet is duplicated and none is in two queue positions at once.
C20_Conservation ==
    /\ generated = Settled + Cardinality(Positions)
    /\ Cardinality(gone) = Settled
    /\ Cardinality({ p.id : p \in Queued }) = Cardinality(Positions)
    /\ \A p \in Queued : p.id \in 1 .. generated
    /\ gone \subseteq 1 .. generated

\* packets delivered and dropped in a recorded frame, and more of both kinds
\* of outcome possible while packets still wait
C20_Witness ==
    /\ results # <<>>
    /\ results[1].delivered >= 1
    /\ results[1].dropped >= 1
    /\ pc = "service"
    /\ delivered + dropped >= 1
    /\ Cardinality(Positions) >= 1
====
